---- MODULE Spec2Model ----
(***************************************************************************)
(* Model of the Monte Carlo benchmarking pipeline:                         *)
(*   pipeline/utils.py                 safe_div, safe_div_percent,         *)
(*                                     safe_vector_cast                    *)
(*   pipeline/schema.py                SCHEMA                              *)
(*   pipeline/gen_perf_parquet_logs.py update_parquet                      *)
(*   pipeline/combine_batch_parquets.py merge of a batch and append to the *)
(*                                     historical store at DB_PATH         *)
(*   scripts/setup.py                  --load-from-sample / --load-from-db *)
(*                                                                         *)
(* Text is a sequence of one-character strings, so that parsing is         *)
(* computed from the characters. A float is an integer count of 1/Scale.   *)
(***************************************************************************)
EXTENDS Integers, Sequences, FiniteSets, TLC

VARIABLES
    \* safe_div / safe_div_percent called on one pair of arguments
    numerator, denominator, quotient, percent,
    \* safe_vector_cast called on one table and schema, and again on its result
    df, schema, cast1, cast2,
    \* update_parquet called on one command line: the parsed arguments, the
    \* batch directories the glob matches, and what the call did
    cli, matches, written,
    \* the files: per-trial files and merged outputs of the batch directories,
    \* the historical store at DB_PATH, the ClickHouse table
    trials, outs, store, ch,
    \* each invocation of combine_batch_parquets.py: where it is, its
    \* arguments and its variables files, merged and db (as read)
    pc, argv, files, merged, old,
    \* what the previous complete run of each invocation did
    prev,
    \* scripts/setup.py: how many times it ran and what it last loaded
    loads, lastLoad,
    \* runs of combine_batch_parquets.py started so far
    runs,
    \* combine_batch_parquets.py run on tables with their columns: the tables
    \* of the files in glob order, the table of the store, what the run did
    frames, dbframe, combined,
    \* polars_to_clickhouse_dtype called on one dtype and nullable flag
    dtypeArg, nullableArg, chType,
    \* parse_perf_metrics.py run on one counter dump and number of trials
    dump, ntrials, values,
    \* two concurrent trial writers: their command lines, the files written
    \* and by whom, and what each call did
    clis, fsys, wrote,
    \* wait_for_clickhouse: the loop variable, the attempts made and how each
    \* failed, and how the call ended
    attempt, attempts, failures, waited

divVars == <<numerator, denominator, quotient, percent>>
castVars == <<df, schema, cast1, cast2>>
rowVars == <<cli, matches, written>>
fileVars == <<trials, outs, store, ch>>
mergeVars == <<pc, argv, files, merged, old, prev, runs>>
setupVars == <<loads, lastLoad>>
pipeVars == <<fileVars, mergeVars, setupVars>>
concatVars == <<frames, dbframe, combined>>
dtypeVars == <<dtypeArg, nullableArg, chType>>
extractVars == <<dump, ntrials, values>>
pathVars == <<clis, fsys, wrote>>
waitVars == <<attempt, attempts, failures, waited>>
moreVars == <<concatVars, dtypeVars, extractVars, pathVars, waitVars>>
vars == <<divVars, castVars, rowVars, pipeVars, moreVars>>

(***************************************************************************)
(* Values: Python / Polars scalars.                                        *)
(***************************************************************************)
Scale == 10000

Null == [k |-> "null", s |-> <<>>, n |-> 0]
StrV(cs) == [k |-> "str", s |-> cs, n |-> 0]
IntV(i) == [k |-> "int", s |-> <<>>, n |-> i]
FltV(u) == [k |-> "float", s |-> <<>>, n |-> u]
DtV(ms) == [k |-> "datetime", s |-> <<>>, n |-> ms]

\* The sentinel "NA".
NA == StrV(<<"N", "A">>)

\* The result slot of a call that has not been made yet.
Unset == [k |-> "unset", s |-> <<>>, n |-> 0]
\* An exception leaving a function; s is the exception class.
Raised(cls) == [k |-> "raise", s |-> cls, n |-> 0]

Digits == {"0", "1", "2", "3", "4", "5", "6", "7", "8", "9"}

DigitVal(c) ==
    CASE c = "0" -> 0 [] c = "1" -> 1 [] c = "2" -> 2 [] c = "3" -> 3
      [] c = "4" -> 4 [] c = "5" -> 5 [] c = "6" -> 6 [] c = "7" -> 7
      [] c = "8" -> 8 [] c = "9" -> 9 [] OTHER -> 0

DigitChar(d) ==
    CASE d = 0 -> "0" [] d = 1 -> "1" [] d = 2 -> "2" [] d = 3 -> "3"
      [] d = 4 -> "4" [] d = 5 -> "5" [] d = 6 -> "6" [] d = 7 -> "7"
      [] d = 8 -> "8" [] OTHER -> "9"

AllDigits(cs) == \A i \in 1..Len(cs) : cs[i] \in Digits

RECURSIVE ParseNat(_)
ParseNat(cs) ==
    IF cs = <<>> THEN 0
    ELSE ParseNat(SubSeq(cs, 1, Len(cs) - 1)) * 10 + DigitVal(cs[Len(cs)])

RECURSIVE NatText(_)
NatText(i) ==
    IF i < 10 THEN <<DigitChar(i)>>
    ELSE NatText(i \div 10) \o <<DigitChar(i % 10)>>

Abs(i) == IF i < 0 THEN -i ELSE i

\* Leading and trailing blanks removed (what float() does to a str first).
RECURSIVE Strip(_)
Strip(cs) ==
    IF cs = <<>> THEN cs
    ELSE IF Head(cs) = " " THEN Strip(Tail(cs))
    ELSE IF cs[Len(cs)] = " " THEN Strip(SubSeq(cs, 1, Len(cs) - 1))
    ELSE cs

HasSign(cs) == cs # <<>> /\ Head(cs) \in {"-", "+"}
Unsigned(cs) == IF HasSign(cs) THEN Tail(cs) ELSE cs
SignOf(cs) == IF cs # <<>> /\ Head(cs) = "-" THEN -1 ELSE 1

\* Index of the first "." of cs, or Len(cs) + 1.
DotAt(cs) ==
    IF \E i \in 1..Len(cs) : cs[i] = "."
    THEN CHOOSE i \in 1..Len(cs) :
            cs[i] = "." /\ \A j \in 1..(i - 1) : cs[j] # "."
    ELSE Len(cs) + 1

WholePart(cs) == SubSeq(cs, 1, DotAt(cs) - 1)
FracPart(cs) == SubSeq(cs, DotAt(cs) + 1, Len(cs))

\* A decimal literal: [sign] digits [. digits], with at least one digit.
IsDecimalText(cs) ==
    LET b == Unsigned(cs)
    IN  /\ AllDigits(WholePart(b))
        /\ AllDigits(FracPart(b))
        /\ Len(WholePart(b)) + Len(FracPart(b)) > 0

\* An integer literal: [sign] digits.
IsIntText(cs) == Unsigned(cs) # <<>> /\ AllDigits(Unsigned(cs))

IntTextValue(cs) == SignOf(cs) * ParseNat(Unsigned(cs))

\* The first four fraction digits, as a count of 1/Scale.
FracUnits(fs) ==
    LET d(i) == IF i <= Len(fs) THEN DigitVal(fs[i]) ELSE 0
    IN  d(1) * 1000 + d(2) * 100 + d(3) * 10 + d(4)

DecimalTextValue(cs) ==
    LET b == Unsigned(cs)
    IN  SignOf(cs) * (ParseNat(WholePart(b)) * Scale + FracUnits(FracPart(b)))

\* The nearest integer to a / b (b # 0), ties to even: round(x, 4) on a
\* value held as a count of 1/Scale.
RoundDiv(a, b) ==
    LET sgn == IF (a < 0) = (b < 0) THEN 1 ELSE -1
        p == Abs(a)
        q == Abs(b)
        fl == p \div q
        r2 == 2 * (p % q)
        mag == IF r2 > q \/ (r2 = q /\ fl % 2 = 1) THEN fl + 1 ELSE fl
    IN  sgn * mag

(***************************************************************************)
(* pipeline/utils.py : safe_div, safe_div_percent                          *)
(***************************************************************************)
\* float(x): the float, or the exception it raises.
PyFloat(x) ==
    CASE x.k = "float" -> x
      [] x.k = "int" -> FltV(x.n * Scale)
      [] x.k = "str" ->
            IF IsDecimalText(Strip(x.s))
            THEN FltV(DecimalTextValue(Strip(x.s)))
            ELSE Raised("ValueError")
      [] OTHER -> Raised("TypeError")

\* "NA" in (numerator, denominator)
NAIn(a, b) == a = NA \/ b = NA

\* round(a / b, 4) for counts a, b of 1/Scale (b # 0): the whole part of the
\* quotient and its rounded fraction, computed apart to stay within 32 bits.
Round4(a, b) ==
    LET sgn == IF (a < 0) = (b < 0) THEN 1 ELSE -1
        p == Abs(a)
        q == Abs(b)
    IN  sgn * ((p \div q) * Scale + RoundDiv((p % q) * Scale, q))

\* round((num / denom) * times, 4) on two floats.
PyTrueDiv(num, denom, times) ==
    IF denom.n = 0 THEN Raised("ZeroDivisionError")
    ELSE FltV(Round4(num.n * times, denom.n))

safe_div_zero_for_unavailable(a, b) ==
    IF NAIn(a, b) THEN NA
    ELSE IF PyFloat(a).k = "raise" \/ PyFloat(b).k = "raise" THEN NA
    ELSE IF PyFloat(b).n = 0 THEN FltV(0)
    ELSE PyTrueDiv(PyFloat(a), PyFloat(b), 1)

safe_div(a, b) ==
    IF NAIn(a, b) THEN NA
    ELSE LET num == PyFloat(a)
             denom == PyFloat(b)
         IN  IF num.k = "raise" THEN NA         \* except: return "NA"
             ELSE IF denom.k = "raise" THEN NA  \* except: return "NA"
             ELSE LET q == PyTrueDiv(num, denom, 1)
                  IN  IF q.k = "raise" THEN NA ELSE q

safe_div_percent(a, b) ==
    IF NAIn(a, b) THEN NA
    ELSE LET num == PyFloat(a)
             denom == PyFloat(b)
         IN  IF num.k = "raise" THEN NA
             ELSE IF denom.k = "raise" THEN NA
             ELSE LET q == PyTrueDiv(num, denom, 100)
                  IN  IF q.k = "raise" THEN NA ELSE q

(***************************************************************************)
(* pipeline/schema.py : SCHEMA, in declaration order.                      *)
(***************************************************************************)
Field(name, dtype, allow_na) == [name |-> name, dtype |-> dtype, allow_na |-> allow_na]

SCHEMA ==
    << Field("Timestamp", "Datetime", FALSE),
       Field("BatchID", "Utf8", FALSE),
       Field("Method", "Utf8", FALSE),
       Field("Trials", "Int64", FALSE),
       Field("Cycles", "Int64", FALSE),
       Field("Instructions", "Int64", FALSE),
       Field("IPC", "Float64", FALSE),
       Field("Wall Time (s)", "Float64", FALSE),
       Field("Wall Time (ns)", "Int64", FALSE),
       Field("Cache Loads", "Int64", FALSE),
       Field("Cache Misses", "Int64", FALSE),
       Field("Cache Miss %", "Float64", FALSE),
       Field("L1 Loads", "Int64", FALSE),
       Field("L1 Misses", "Int64", FALSE),
       Field("L1 Miss %", "Float64", FALSE),
       Field("L2 Loads", "Int64", TRUE),
       Field("L2 Misses", "Int64", TRUE),
       Field("L2 Miss %", "Float64", TRUE),
       Field("L3 Loads", "Int64", TRUE),
       Field("L3 Misses", "Int64", TRUE),
       Field("L3 Miss %", "Float64", TRUE),
       Field("TLB Loads", "Int64", FALSE),
       Field("TLB Misses", "Int64", FALSE),
       Field("TLB Miss %", "Float64", FALSE),
       Field("Branch Instructions", "Int64", FALSE),
       Field("Branch Misses", "Int64", FALSE),
       Field("Branch Miss %", "Float64", FALSE),
       Field("Misses/Trial", "Float64", FALSE),
       Field("Cycles/Trial", "Float64", FALSE) >>

Range(q) == {q[i] : i \in 1..Len(q)}
FieldNames(sch) == [i \in 1..Len(sch) |-> sch[i].name]

RECURSIVE SelectSeq2(_, _)
\* The entries of q whose name is in keep, in q's order.
SelectSeq2(q, keep) ==
    IF q = <<>> THEN <<>>
    ELSE IF Head(q).name \in keep THEN <<Head(q)>> \o SelectSeq2(Tail(q), keep)
    ELSE SelectSeq2(Tail(q), keep)

(***************************************************************************)
(* Polars: a DataFrame is its column names in order, one dtype per column  *)
(* and its rows; a value of a column is null or of the column's dtype.     *)
(* A Datetime("ms") is a count of milliseconds, counted here from          *)
(* 2025-05-13 00:00:00 so that the counts fit TLC's integers; the only     *)
(* date-time texts of the model are those of that day.                     *)
(***************************************************************************)
DataFrame(columns, dtypes, rows) == [columns |-> columns, dtypes |-> dtypes, rows |-> rows]

Pad(cs, w) == IF Len(cs) < w THEN [i \in 1..(w - Len(cs)) |-> "0"] \o cs ELSE cs

RECURSIVE DropTrailingZeros(_)
DropTrailingZeros(cs) ==
    IF Len(cs) > 1 /\ cs[Len(cs)] = "0"
    THEN DropTrailingZeros(SubSeq(cs, 1, Len(cs) - 1))
    ELSE cs

IntText(i) == IF i < 0 THEN <<"-">> \o NatText(-i) ELSE NatText(i)

\* 2.5 -> "2.5", 7.0 -> "7.0"
FloatText(u) ==
    (IF u < 0 THEN <<"-">> ELSE <<>>)
        \o NatText(Abs(u) \div Scale) \o <<".">>
        \o DropTrailingZeros(Pad(NatText(Abs(u) % Scale), 4))

DayText == <<"2", "0", "2", "5", "-", "0", "5", "-", "1", "3", " ">>

\* "2025-05-13 HH:MM:SS"
IsDatetimeText(cs) ==
    /\ Len(cs) = 19
    /\ SubSeq(cs, 1, 11) = DayText
    /\ cs[14] = ":" /\ cs[17] = ":"
    /\ AllDigits(SubSeq(cs, 12, 13)) /\ ParseNat(SubSeq(cs, 12, 13)) < 24
    /\ AllDigits(SubSeq(cs, 15, 16)) /\ ParseNat(SubSeq(cs, 15, 16)) < 60
    /\ AllDigits(SubSeq(cs, 18, 19)) /\ ParseNat(SubSeq(cs, 18, 19)) < 60

DatetimeTextValue(cs) ==
    ((ParseNat(SubSeq(cs, 12, 13)) * 60 + ParseNat(SubSeq(cs, 15, 16))) * 60
        + ParseNat(SubSeq(cs, 18, 19))) * 1000

\* "2025-05-13 HH:MM:SS.mmm"
DatetimeText(ms) ==
    DayText \o Pad(NatText(ms \div 3600000), 2) \o <<":">>
        \o Pad(NatText((ms \div 60000) % 60), 2) \o <<":">>
        \o Pad(NatText((ms \div 1000) % 60), 2) \o <<".">>
        \o Pad(NatText(ms % 1000), 3)

\* Toward zero.
Truncate(u) == (IF u < 0 THEN -1 ELSE 1) * (Abs(u) \div Scale)

CastError == Raised("InvalidOperationError")

CastSameRescaled(v) == IF v.k = "datetime" THEN DtV(v.n \div 1000) ELSE v

\* A cast to the dtype the column already has.
CastSame(v) == v

\* Expr.cast(dtype), strict, on one value of a column of dtype `from`.
CastValue(v, from, to) ==
    IF v = Null THEN Null
    ELSE IF from = to THEN CastSame(v)
    ELSE CASE to = "Int64" ->
                CASE from = "Utf8" ->
                        IF IsIntText(v.s) THEN IntV(IntTextValue(v.s)) ELSE CastError
                  [] from = "Float64" -> IntV(Truncate(v.n))
                  [] OTHER -> IntV(v.n)
           [] to = "Float64" ->
                CASE from = "Utf8" ->
                        IF IsDecimalText(v.s) THEN FltV(DecimalTextValue(v.s)) ELSE CastError
                  [] OTHER -> FltV(v.n * Scale)
           [] to = "Datetime" ->
                CASE from = "Utf8" ->
                        IF IsDatetimeText(v.s) THEN DtV(DatetimeTextValue(v.s)) ELSE CastError
                  [] from = "Float64" -> DtV(Truncate(v.n))
                  [] OTHER -> DtV(v.n)
           [] OTHER ->
                CASE from = "Int64" -> StrV(IntText(v.n))
                  [] from = "Float64" -> StrV(FloatText(v.n))
                  [] OTHER -> StrV(DatetimeText(v.n))

(***************************************************************************)
(* pipeline/utils.py : safe_vector_cast                                    *)
(***************************************************************************)
\* A printed line: its text and the names it lists.
Line(text, names) == [text |-> text, names |-> names]

MissingInverted(d, sch) ==
    SelectSeq(d.columns, LAMBDA c : c \notin Range(FieldNames(sch)))

\* missing = [c for c in schema if c not in df.columns]
Missing(d, sch) ==
    SelectSeq(FieldNames(sch), LAMBDA c : c \notin Range(d.columns))

SubstitutesNAEverywhere(allow_na, dtype) == dtype = "Utf8"

\* if allow_na and df[c].dtype == pl.Utf8
SubstitutesNA(allow_na, dtype) == allow_na /\ dtype = "Utf8"

\* One cast expression of the loop on one row's value.
CastExpr(v, f, from) ==
    IF SubstitutesNA(f.allow_na, from)
    THEN CastValue(IF v = NA THEN Null ELSE v, from, f.dtype)
    ELSE CastValue(v, from, f.dtype)

WithColumnsSelected(d, sch) ==
    LET fieldOf(c) == CHOOSE i \in 1..Len(sch) : sch[i].name = c
        fields == Range(FieldNames(sch))
    IN  DataFrame(
            FieldNames(sch),
            [c \in fields |-> sch[fieldOf(c)].dtype],
            [i \in 1..Len(d.rows) |->
                [c \in fields |-> CastExpr(d.rows[i][c], sch[fieldOf(c)], d.dtypes[c])]])

\* df.with_columns(casted): every schema column replaced by its cast, the
\* other columns and the order of columns and rows kept.
WithColumns(d, sch) ==
    LET fieldOf(c) == CHOOSE i \in 1..Len(sch) : sch[i].name = c
        isField(c) == c \in Range(FieldNames(sch))
    IN  DataFrame(
            d.columns,
            [c \in DOMAIN d.dtypes |->
                IF isField(c) THEN sch[fieldOf(c)].dtype ELSE d.dtypes[c]],
            [i \in 1..Len(d.rows) |->
                [c \in DOMAIN d.dtypes |->
                    IF isField(c)
                    THEN CastExpr(d.rows[i][c], sch[fieldOf(c)], d.dtypes[c])
                    ELSE d.rows[i][c]]])

NoFrame == DataFrame(<<>>, <<>>, <<>>)
NoError == [cls |-> "", text |-> "", count |-> 0, names |-> <<>>]

\* The lines of the except block, which re-raises.
ExceptLines(d) ==
    << Line("[ERROR] safe_vector_cast failed:", <<>>),
       Line("[DEBUG] DataFrame columns:", d.columns),
       Line("[DEBUG] Schema fields:", FieldNames(SCHEMA)) >>

safe_vector_cast(d, sch) ==
    LET missing == Missing(d, sch)
        absent == {c \in Range(FieldNames(sch)) : c \notin Range(d.columns)}
        out == WithColumns(d, sch)
        failed == \E i \in 1..Len(out.rows) : \E c \in DOMAIN out.dtypes :
                      out.rows[i][c].k = "raise"
    IN  IF missing # <<>>
        THEN [ status |-> "raise",
               df |-> NoFrame,
               error |-> [ cls |-> "ValueError",
                           text |-> "Schema mismatch: {count} missing column(s)",
                           count |-> Len(missing),
                           names |-> <<>> ],
               stdout |-> << Line("SCHEMA MISMATCH DETECTED", <<>>),
                             Line("Expected columns (from schema):", FieldNames(sch)),
                             Line("Found columns (in DataFrame):", d.columns),
                             Line("Missing columns:", missing) >>
                          \o ExceptLines(d) ]
        ELSE IF absent # {}
        THEN [ status |-> "raise", df |-> NoFrame,
               error |-> [ cls |-> "ColumnNotFoundError", text |-> "", count |-> 0,
                           names |-> <<>> ],
               stdout |-> ExceptLines(d) ]
        ELSE IF failed
        THEN [ status |-> "raise", df |-> NoFrame,
               error |-> [ cls |-> "InvalidOperationError", text |-> "", count |-> 0,
                           names |-> <<>> ],
               stdout |-> ExceptLines(d) ]
        ELSE [ status |-> "ok", df |-> out, error |-> NoError, stdout |-> <<>> ]

NotCalled == [status |-> "none", df |-> NoFrame, error |-> NoError, stdout |-> <<>>]

CastIdle ==
    /\ df = NoFrame
    /\ schema = <<>>
    /\ cast1 = NotCalled
    /\ cast2 = NotCalled

(***************************************************************************)
(* pipeline/gen_perf_parquet_logs.py : update_parquet                      *)
(***************************************************************************)
\* The dests of parse_args; every value is the text given on the command line.
CliKeys ==
    { "out_path", "wall_time_s", "wall_time_ns", "timestamp", "batchid", "method",
      "trials", "cycles", "instr", "ipc", "cache_loads", "cache_miss",
      "l1_loads", "l1_misses", "l2_loads", "l2_misses", "l3_loads", "l3_misses",
      "tlb_loads", "tlb_misses", "branch_instr", "branch_misses",
      "miss_per_trial", "cycles_per_trial" }

\* row = { ... }: the raw row, keyed by the SCHEMA field names.
RawRow(args) ==
    [ Timestamp |-> args.timestamp,
      BatchID |-> args.batchid,
      Method |-> args.method,
      Trials |-> args.trials,
      Cycles |-> args.cycles,
      Instructions |-> args.instr,
      IPC |-> args.ipc ]
    @@ ( "Wall Time (s)" :> args.wall_time_s
      @@ "Wall Time (ns)" :> args.wall_time_ns
      @@ "Cache Loads" :> args.cache_loads
      @@ "Cache Misses" :> args.cache_miss
      @@ "Cache Miss %" :> safe_div_percent(args.cache_miss, args.cache_loads)
      @@ "L1 Loads" :> args.l1_loads
      @@ "L1 Misses" :> args.l1_misses
      @@ "L1 Miss %" :> safe_div_percent(args.l1_misses, args.l1_loads)
      @@ "L2 Loads" :> args.l2_loads
      @@ "L2 Misses" :> args.l2_misses
      @@ "L2 Miss %" :> safe_div_percent(args.l2_misses, args.l2_loads)
      @@ "L3 Loads" :> args.l3_loads
      @@ "L3 Misses" :> args.l3_misses
      @@ "L3 Miss %" :> safe_div_percent(args.l3_misses, args.l3_loads)
      @@ "TLB Loads" :> args.tlb_loads
      @@ "TLB Misses" :> args.tlb_misses
      @@ "TLB Miss %" :> safe_div_percent(args.tlb_misses, args.tlb_loads)
      @@ "Branch Instructions" :> args.branch_instr
      @@ "Branch Misses" :> args.branch_misses
      @@ "Branch Miss %" :> safe_div_percent(args.branch_misses, args.branch_instr)
      @@ "Misses/Trial" :> args.miss_per_trial
      @@ "Cycles/Trial" :> args.cycles_per_trial )

\* The keys of the row literal, in its order (the order of SCHEMA).
RowKeys == FieldNames(SCHEMA)

\* row = {k: (None if v == "NA" else v) for k, v in row.items()}
NoneForNA(row) == [c \in DOMAIN row |-> IF row[c] = NA THEN Null ELSE row[c]]

\* The dtype pl.DataFrame infers for a column from its one Python value.
InferredDType(v) ==
    CASE v.k = "str" -> "Utf8"
      [] v.k = "int" -> "Int64"
      [] v.k = "float" -> "Float64"
      [] v.k = "datetime" -> "Datetime"
      [] OTHER -> "Null"

\* pl.DataFrame([row])
FrameOfRow(keys, row) ==
    DataFrame(keys, [c \in DOMAIN row |-> InferredDType(row[c])], <<row>>)

ParquetPathNoMethod(batch_dir, args) ==
    [ dir |-> batch_dir,
      name |-> <<"p", "e", "r", "f", "_", "r", "e", "s", "u", "l", "t", "s", "_">> \o args.timestamp.s \o <<"_">> \o args.batchid.s \o <<".", "p", "a", "r", "q", "u", "e", "t">> ]

\* batch_dir / f"perf_results_{method}_{timestamp}_{batchid}.parquet"
ParquetPath(batch_dir, args) ==
    [ dir |-> batch_dir,
      name |-> <<"p", "e", "r", "f", "_", "r", "e", "s", "u", "l", "t", "s", "_">> \o args.method.s \o <<"_">> \o args.timestamp.s \o <<"_">>
                   \o args.batchid.s \o <<".", "p", "a", "r", "q", "u", "e", "t">> ]

NoPath == [dir |-> 0, name |-> <<>>]

\* matchesOfBatch: sorted(glob(f"db/logs/batch_{args.batchid}_*")), each
\* directory named by the number of its suffix.
update_parquet(args, matchesOfBatch) ==
    IF matchesOfBatch = <<>>
    THEN [status |-> "raise", error |-> "FileNotFoundError", path |-> NoPath, df |-> NoFrame]
    ELSE LET path == ParquetPath(matchesOfBatch[Len(matchesOfBatch)], args)
             res == safe_vector_cast(FrameOfRow(RowKeys, NoneForNA(RawRow(args))), SCHEMA)
         IN  IF res.status = "raise"
             THEN [status |-> "raise", error |-> res.error.cls, path |-> path, df |-> NoFrame]
             ELSE [status |-> "ok", error |-> "", path |-> path, df |-> res.df]

NotRun == [status |-> "none", error |-> "", path |-> NoPath, df |-> NoFrame]

RowIdle ==
    /\ cli = <<>>
    /\ matches = <<>>
    /\ written = NotRun

(***************************************************************************)
(* The files of the pipeline. A stored row is kept by the three fields     *)
(* that identify it (its counters play no part in merging or appending);   *)
(* a timestamp is a number here. A per-trial file holds the one row its    *)
(* name gives: perf_results_{method}_{timestamp}_{batchid}.parquet.        *)
(***************************************************************************)
Batches == {"b1", "b2"}
Methods == {"A", "B"}
MaxTs == 2
Timestamps == 1..MaxTs

Row(t, m, b) == [Timestamp |-> t, Method |-> m, BatchID |-> b]

\* A file that exists, and the absence of a file.
FileOf(rows) == [exists |-> TRUE, rows |-> rows]
Absent == [exists |-> FALSE, rows |-> <<>>]

\* File names within a batch directory.
TrialName(m, t) == [stem |-> "perf_results", method |-> m, timestamp |-> t]
TrialNames == {TrialName(m, t) : m \in Methods, t \in Timestamps}
\* The output names an invocation may be given: one that the glob matches
\* and one that it does not.
OutNames ==
    { [stem |-> "perf_results", method |-> "all", timestamp |-> 0],
      [stem |-> "combined", method |-> "", timestamp |-> 0] }

\* batch_dir.glob("perf_results_*.parquet")
GlobMatches(name) == name.stem = "perf_results"

\* The names of the files of batch directory b.
DirNames(b) ==
    {n \in TrialNames : [batch |-> b, name |-> n] \in trials}
        \cup {n \in OutNames : outs[b][n].exists}

GlobFilesUnfiltered(b, o) == {n \in DirNames(b) : GlobMatches(n)}

\* files = [f for f in batch_dir.glob(...) if f.name != output_path.name]
GlobFiles(b, o) == {n \in DirNames(b) : GlobMatches(n) /\ n # o}

\* pl.read_parquet(f)
ReadFile(b, n) ==
    IF n \in OutNames THEN outs[b][n].rows ELSE <<Row(n.timestamp, n.method, b)>>

RECURSIVE Orders(_)
\* The orders in which the glob may yield the files: the file system's.
Orders(names) ==
    IF names = {} THEN {<<>>}
    ELSE UNION {{<<n>> \o rest : rest \in Orders(names \ {n})} : n \in names}

RECURSIVE ConcatFiles(_, _)
\* pl.concat([pl.read_parquet(f) for f in files], how="vertical_relaxed"),
\* the files in the order `order`.
ConcatFiles(b, order) ==
    IF order = <<>> THEN <<>>
    ELSE ReadFile(b, Head(order)) \o ConcatFiles(b, Tail(order))

RemoveOne(q, r) ==
    LET i == CHOOSE j \in 1..Len(q) : q[j] = r
    IN  SubSeq(q, 1, i - 1) \o SubSeq(q, i + 1, Len(q))

IsSorted(q) == \A i \in 1..(Len(q) - 1) : q[i].Timestamp <= q[i + 1].Timestamp

SortsAsRead(q) == {q}

RECURSIVE Sorts(_)
\* .sort("Timestamp"): the rows in ascending Timestamp order. The order of
\* rows with equal Timestamp is not fixed (the glob order is the file
\* system's, and sort keeps no order among equals unless asked to), so
\* every sorted arrangement is a possible result.
Sorts(q) ==
    IF q = <<>> THEN {<<>>}
    ELSE LET lo == CHOOSE t \in {q[i].Timestamp : i \in 1..Len(q)} :
                      \A i \in 1..Len(q) : t <= q[i].Timestamp
             firsts == {q[i] : i \in {j \in 1..Len(q) : q[j].Timestamp = lo}}
         IN  UNION {{<<r>> \o rest : rest \in Sorts(RemoveOne(q, r))} : r \in firsts}

\* samples/db_sample.parquet
Sample == <<Row(1, "A", "s0")>>

(***************************************************************************)
(* pipeline/combine_batch_parquets.py, one invocation p.                   *)
(***************************************************************************)
Procs == {1, 2}
MaxTrials == 2
MaxRuns == 2
MaxLoads == 1

NoArgv == [batch_dir |-> "", out_dir |-> "", output |-> [stem |-> "", method |-> "", timestamp |-> 0]]
NoPrev == [valid |-> FALSE, argv |-> NoArgv, files |-> {}, before |-> Absent, written |-> <<>>]

Stopped(p) == pc[p] \in {"idle", "exit0", "done"}

DbOfOverwriting(p) == merged[p]

DbOfReread(p) == IF store.exists THEN store.rows \o merged[p] ELSE merged[p]

DbOfResorted(p) ==
    IF old[p].exists
    THEN CHOOSE q \in Sorts(old[p].rows \o merged[p]) : TRUE
    ELSE merged[p]

DbOfDeduplicated(p) ==
    IF old[p].exists
    THEN old[p].rows \o SelectSeq(merged[p], LAMBDA r : r \notin Range(old[p].rows))
    ELSE merged[p]

\* if global_db_path.exists(): db = pl.concat([db, merged]) else: db = merged
DbOf(p) == IF old[p].exists THEN old[p].rows \o merged[p] ELSE merged[p]

NoInputNever(fs) == FALSE

\* if not files:
NoInput(fs) == fs = {}

\* Lines 46-56: the arguments (the batch directory b, and the output path,
\* which is file o of directory d), the glob and its filter, the empty
\* check, the reads, the concat and the sort.
Merge(p, b, d, o) ==
    /\ Stopped(p)
    /\ runs < MaxRuns
    /\ runs' = runs + 1
    /\ argv' = [argv EXCEPT ![p] = [batch_dir |-> b, out_dir |-> d, output |-> o]]
    /\ files' = [files EXCEPT ![p] = GlobFiles(b, o)]
    /\ old' = [old EXCEPT ![p] = Absent]
    /\ IF NoInput(GlobFiles(b, o))
       THEN /\ pc' = [pc EXCEPT ![p] = "exit0"]
            /\ merged' = [merged EXCEPT ![p] = <<>>]
       ELSE /\ pc' = [pc EXCEPT ![p] = "merged"]
            /\ \E order \in Orders(GlobFiles(b, o)) :
                  \E m \in Sorts(ConcatFiles(b, order)) :
                      merged' = [merged EXCEPT ![p] = m]
    /\ UNCHANGED <<fileVars, prev, setupVars>>

\* Line 57: merged.write_parquet(output_path)
SaveMerged(p) ==
    /\ pc[p] = "merged"
    /\ outs' = [outs EXCEPT ![argv[p].out_dir][argv[p].output] = FileOf(merged[p])]
    /\ pc' = [pc EXCEPT ![p] = "saved"]
    /\ UNCHANGED <<trials, store, ch, argv, files, merged, old, prev, runs, setupVars>>

\* Lines 62-63: global_db_path.exists() and pl.read_parquet(global_db_path)
ReadDb(p) ==
    /\ pc[p] = "saved"
    /\ old' = [old EXCEPT ![p] = store]
    /\ pc' = [pc EXCEPT ![p] = "read"]
    /\ UNCHANGED <<fileVars, argv, files, merged, prev, runs, setupVars>>

\* Line 70: db.write_parquet(global_db_path)
WriteDb(p) ==
    /\ pc[p] = "read"
    /\ store' = FileOf(DbOf(p))
    /\ prev' = [prev EXCEPT ![p] =
                  [valid |-> TRUE, argv |-> argv[p], files |-> files[p],
                   before |-> old[p], written |-> DbOf(p)]]
    /\ pc' = [pc EXCEPT ![p] = "done"]
    /\ UNCHANGED <<trials, outs, ch, argv, files, merged, old, runs, setupVars>>

\* gen_perf_parquet_logs.py: update_parquet writes one per-trial file.
WriteTrial(b, m, t) ==
    /\ Cardinality(trials) < MaxTrials
    /\ [batch |-> b, name |-> TrialName(m, t)] \notin trials
    /\ trials' = trials \cup {[batch |-> b, name |-> TrialName(m, t)]}
    /\ UNCHANGED <<outs, store, ch, mergeVars, setupVars>>

(***************************************************************************)
(* scripts/setup.py : main with --load-from-sample or --load-from-db       *)
(***************************************************************************)
CopySampleKeepingStore(st) == IF st.exists THEN st ELSE FileOf(Sample)

\* shutil.copy(SAMPLE_PATH, DB_PATH)
CopySample(st) == FileOf(Sample)

\* load_db_to_clickhouse on an existing file: nothing when it has no
\* records, else TRUNCATE and INSERT.
LoadRecords(rows, table) == IF rows = <<>> THEN table ELSE rows

SetupLoadFromSample(serial) ==
    /\ loads < MaxLoads
    /\ serial => \A p \in Procs : Stopped(p)
    /\ store' = CopySample(store)
    /\ ch' = LoadRecords(CopySample(store).rows, ch)
    /\ loads' = loads + 1
    /\ lastLoad' = "sample"
    /\ UNCHANGED <<trials, outs, mergeVars>>

SetupLoadFromDb(serial) ==
    /\ loads < MaxLoads
    /\ serial => \A p \in Procs : Stopped(p)
    /\ loads' = loads + 1
    /\ IF store.exists
       THEN /\ ch' = LoadRecords(store.rows, ch)
            /\ lastLoad' = "db"
       ELSE /\ ch' = ch
            /\ lastLoad' = "FileNotFoundError"
    /\ UNCHANGED <<trials, outs, store, mergeVars>>

PipeIdle ==
    /\ trials = {}
    /\ outs = [b \in Batches |-> [n \in OutNames |-> Absent]]
    /\ store = Absent
    /\ ch = <<>>
    /\ pc = [p \in Procs |-> "idle"]
    /\ argv = [p \in Procs |-> NoArgv]
    /\ files = [p \in Procs |-> {}]
    /\ merged = [p \in Procs |-> <<>>]
    /\ old = [p \in Procs |-> Absent]
    /\ prev = [p \in Procs |-> NoPrev]
    /\ loads = 0
    /\ lastLoad = "none"
    /\ runs = 0

(***************************************************************************)
(* The values of the variables of an operation that is not under study.    *)
(***************************************************************************)
ConcatIdle ==
    /\ frames = <<>>
    /\ dbframe = "idle"
    /\ combined = "idle"

DtypeIdle ==
    /\ dtypeArg = "idle"
    /\ nullableArg = FALSE
    /\ chType = "idle"

ExtractIdle ==
    /\ dump = <<>>
    /\ ntrials = 0
    /\ values = "idle"

PathIdle ==
    /\ clis = <<>>
    /\ fsys = {}
    /\ wrote = <<>>

WaitIdle ==
    /\ attempt = 0
    /\ attempts = 0
    /\ failures = <<>>
    /\ waited = "idle"

MoreIdle == ConcatIdle /\ DtypeIdle /\ ExtractIdle /\ PathIdle /\ WaitIdle

(***************************************************************************)
(* SpecDiv: the two division helpers on every pair of bounded arguments.   *)
(***************************************************************************)
MaxDivInt == 3

DivTexts ==
    { <<"N", "A">>, <<"a", "b", "c">>, <<>>, <<"0">>, <<"7">>,
      <<"2", ".", "5">>, <<"-", "3">>, <<"0", ".", "0">>, <<" ", "4">>,
      <<"<", "n", "o", "t", " ", "s", "u", "p", "p", "o", "r", "t", "e", "d", ">">> }

DivArgs ==
    {StrV(t) : t \in DivTexts}
        \cup {IntV(i) : i \in -1..MaxDivInt}
        \cup {FltV(0), FltV(25000), Null}

DivIdle ==
    /\ numerator = Unset
    /\ denominator = Unset
    /\ quotient = Unset
    /\ percent = Unset

InitDiv ==
    /\ CastIdle
    /\ RowIdle
    /\ PipeIdle
    /\ MoreIdle
    /\ numerator \in DivArgs
    /\ denominator \in DivArgs
    /\ quotient = Unset
    /\ percent = Unset

CallSafeDiv ==
    /\ quotient = Unset
    /\ quotient' = safe_div(numerator, denominator)
    /\ UNCHANGED <<numerator, denominator, percent, castVars, rowVars, pipeVars, moreVars>>

CallSafeDivPercent ==
    /\ percent = Unset
    /\ percent' = safe_div_percent(numerator, denominator)
    /\ UNCHANGED <<numerator, denominator, quotient, castVars, rowVars, pipeVars, moreVars>>

NextDiv == CallSafeDiv \/ CallSafeDivPercent

SpecDiv == InitDiv /\ [][NextDiv]_vars

\* An argument float() accepts.
Numeric(x) ==
    \/ x.k \in {"int", "float"}
    \/ x.k = "str" /\ IsDecimalText(Strip(x.s))

\* The argument's value as a count of 1/Scale (for Numeric arguments).
UnitsOf(x) ==
    CASE x.k = "float" -> x.n
      [] x.k = "int" -> x.n * Scale
      [] OTHER -> DecimalTextValue(Strip(x.s))

Unavailable(a, b) ==
    \/ a = NA \/ b = NA
    \/ ~Numeric(a) \/ ~Numeric(b)
    \/ UnitsOf(b) = 0

\* r is a float within half a unit of 1/Scale of times * a / b.
NearestTo(r, a, b, times) ==
    LET p == Abs(UnitsOf(a) * times)
        q == Abs(UnitsOf(b))
        m == Abs(r.n)
        neg == (UnitsOf(a) < 0) # (UnitsOf(b) < 0)
    IN  /\ r.k = "float"
        /\ r.n # 0 => (r.n < 0) = neg
        /\ 2 * Abs((m - (p \div q) * Scale) * q - (p % q) * Scale) <= q

\* C9: safe_div and safe_div_percent never raise; they return the sentinel
\* when an argument is the sentinel or not numeric or the denominator is
\* zero, and otherwise the quotient (times 100 for the percentage) rounded
\* to 4 decimals, never the sentinel.
C9_DivTotal ==
    /\ quotient # Unset =>
          /\ quotient.k # "raise"
          /\ Unavailable(numerator, denominator) => quotient = NA
          /\ ~Unavailable(numerator, denominator) =>
                NearestTo(quotient, numerator, denominator, 1)
    /\ percent # Unset =>
          /\ percent.k # "raise"
          /\ Unavailable(numerator, denominator) => percent = NA
          /\ ~Unavailable(numerator, denominator) =>
                NearestTo(percent, numerator, denominator, 100)

\* Both helpers were called with a zero denominator and with numeric arguments.
C9_Witness ==
    /\ quotient = NA /\ percent = NA
    /\ numerator = IntV(3) /\ denominator = StrV(<<"0", ".", "0">>)

(***************************************************************************)
(* SpecCast: safe_vector_cast on every bounded table and schema, then on   *)
(* its own result.                                                         *)
(***************************************************************************)
MaxRows == 2

\* Schemas: SCHEMA restricted to one or two of its fields (one field of each
\* dtype and nullability SCHEMA declares), and a nullable text field.
CastFieldSets ==
    { {"Timestamp"}, {"Method"}, {"Cycles"}, {"IPC"}, {"L2 Loads"}, {"L2 Miss %"},
      {"Timestamp", "L2 Loads"}, {"Method", "Cycles"}, {"IPC", "L2 Miss %"} }

CastSchemas ==
    {SelectSeq2(SCHEMA, F) : F \in CastFieldSets}
        \cup {<<Field("Label", "Utf8", TRUE)>>}

DTypes == {"Utf8", "Int64", "Float64", "Datetime", "Null"}

CastTexts ==
    { <<"N", "A">>, <<"7">>,
      <<"2", "0", "2", "5", "-", "0", "5", "-", "1", "3", " ",
        "1", "7", ":", "0", "0", ":", "2", "0">> }

ColumnValues(dtype) ==
    CASE dtype = "Utf8" -> {StrV(t) : t \in CastTexts} \cup {Null}
      [] dtype = "Int64" -> {IntV(7), Null}
      [] dtype = "Float64" -> {FltV(25000), Null}
      [] dtype = "Datetime" -> {DtV(20000), Null}
      [] OTHER -> {Null}

AllColumnValues == UNION {ColumnValues(t) : t \in DTypes}

\* The column orders of a table: up to two distinct names.
Layouts(names) ==
    {<<>>} \cup {<<a>> : a \in names}
        \cup {l \in {<<a, b>> : a \in names, b \in names} : l[1] # l[2]}

RowsOver(dtypes) ==
    {r \in [DOMAIN dtypes -> AllColumnValues] :
        \A c \in DOMAIN dtypes : r[c] \in ColumnValues(dtypes[c])}

InitCast ==
    /\ DivIdle
    /\ RowIdle
    /\ PipeIdle
    /\ MoreIdle
    /\ schema \in CastSchemas
    /\ \E columns \in Layouts(Range(FieldNames(schema)) \cup {"Extra"}) :
         \E dtypes \in [Range(columns) -> DTypes] :
            \E n \in 0..MaxRows :
               \E rows \in [1..n -> RowsOver(dtypes)] :
                  df = DataFrame(columns, dtypes, rows)
    /\ cast1 = NotCalled
    /\ cast2 = NotCalled

CastOnce ==
    /\ cast1 = NotCalled
    /\ cast1' = safe_vector_cast(df, schema)
    /\ UNCHANGED <<df, schema, cast2, divVars, rowVars, pipeVars, moreVars>>

CastAgain ==
    /\ cast1.status = "ok"
    /\ cast2 = NotCalled
    /\ cast2' = safe_vector_cast(cast1.df, schema)
    /\ UNCHANGED <<df, schema, cast1, divVars, rowVars, pipeVars, moreVars>>

NextCast == CastOnce \/ CastAgain

SpecCast == InitCast /\ [][NextCast]_vars

NonNullable(sch) == {i \in 1..Len(sch) : ~sch[i].allow_na}

\* Row r of table d holds the sentinel in column c.
HoldsNA(d, c) == c \in Range(d.columns) /\ \E i \in 1..Len(d.rows) : d.rows[i][c] = NA

\* C6 as stated: after a successful cast no non-nullable field holds "NA",
\* and an input with "NA" in a non-nullable field makes the cast fail,
\* whatever the field's type.
C6_NoSentinelAnyType ==
    cast1 # NotCalled =>
        \A i \in NonNullable(schema) :
            /\ cast1.status = "ok" => ~HoldsNA(cast1.df, schema[i].name)
            /\ HoldsNA(df, schema[i].name) => cast1.status = "raise"

\* C6 amended: the above holds for the non-nullable integer, float and
\* timestamp fields; a non-nullable text field holding "NA" does not make
\* the cast fail and keeps "NA" in the result.
C6_NoSentinelNonText ==
    cast1 # NotCalled =>
        \A i \in NonNullable(schema) :
            IF schema[i].dtype # "Utf8"
            THEN /\ cast1.status = "ok" => ~HoldsNA(cast1.df, schema[i].name)
                 /\ HoldsNA(df, schema[i].name) => cast1.status = "raise"
            ELSE (cast1.status = "ok" /\ df.dtypes[schema[i].name] = "Utf8") =>
                    \A r \in 1..Len(df.rows) :
                        cast1.df.rows[r][schema[i].name] = df.rows[r][schema[i].name]

\* A cast that failed on "NA" in a non-nullable integer field next to a
\* nullable field.
C6_Witness ==
    /\ cast1.status = "raise"
    /\ FieldNames(schema) = <<"Timestamp", "L2 Loads">>
    /\ Range(df.columns) = {"Timestamp", "L2 Loads"}
    /\ HoldsNA(df, "Timestamp")
    /\ HoldsNA(df, "L2 Loads")

\* The schema fields that are no column of the table.
MissingFields == Range(FieldNames(schema)) \ Range(df.columns)

\* The names some line headed `text` lists.
Listed(res, text) ==
    UNION {Range(res.stdout[i].names) : i \in {j \in 1..Len(res.stdout) : res.stdout[j].text = text}}

\* C8 as stated: with a schema field absent the cast fails with an error
\* that names each missing field.
C8_ErrorNamesMissing ==
    (cast1 # NotCalled /\ MissingFields # {}) =>
        /\ cast1.status = "raise"
        /\ MissingFields \subseteq Range(cast1.error.names)

\* C8 amended: with a schema field absent nothing is cast and a ValueError
\* propagates whose message carries only the number of missing fields; the
\* missing fields, the expected fields and the table's columns are printed.
C8_MismatchRaises ==
    (cast1 # NotCalled /\ MissingFields # {}) =>
        /\ cast1.status = "raise"
        /\ cast1.df = NoFrame
        /\ cast1.error.cls = "ValueError"
        /\ cast1.error.count = Cardinality(MissingFields)
        /\ cast1.error.names = <<>>
        /\ Listed(cast1, "Missing columns:") = MissingFields
        /\ Listed(cast1, "Expected columns (from schema):") = Range(FieldNames(schema))
        /\ Listed(cast1, "Found columns (in DataFrame):") = Range(df.columns)

\* A mismatch raised for a table that has one of two schema fields.
C8_Witness ==
    /\ cast1.status = "raise"
    /\ cast1.error.cls = "ValueError"
    /\ Len(schema) = 2
    /\ Cardinality(MissingFields) = 1
    /\ Len(df.columns) = 2

\* C10: a second cast of a successfully cast table succeeds and returns a
\* table equal to the first result.
C10_Idempotent ==
    cast2 # NotCalled => (cast2.status = "ok" /\ cast2.df = cast1.df)

\* A second cast was made after a first that changed the table.
C10_Witness ==
    /\ cast2.status = "ok"
    /\ cast1.df # df
    /\ Len(df.rows) = 2
    /\ HoldsNA(df, "L2 Loads")

(***************************************************************************)
(* SpecRow: update_parquet on command lines that differ from a well-formed *)
(* one in at most MaxOdd values.                                           *)
(***************************************************************************)
MaxOdd == 2

Text7 == StrV(<<"7">>)
Text2p5 == StrV(<<"2", ".", "5">>)

DefaultCli ==
    [k \in CliKeys |->
        CASE k = "timestamp" ->
                StrV(<<"2", "0", "2", "5", "-", "0", "5", "-", "1", "3", " ",
                       "1", "7", ":", "0", "0", ":", "2", "0">>)
          [] k = "batchid" -> StrV(<<"a", "7", "d", "3">>)
          [] k = "method" -> StrV(<<"S", "I", "M", "D">>)
          [] k = "out_path" -> StrV(<<"o">>)
          [] k \in {"ipc", "wall_time_s", "miss_per_trial", "cycles_per_trial"} -> Text2p5
          [] OTHER -> Text7]

OddValues == {NA, StrV(<<"0">>), Text2p5}

\* Directory suffixes the glob may match, sorted.
MatchChoices == {<<>>, <<1>>, <<1, 2>>}

InitRow ==
    /\ DivIdle
    /\ CastIdle
    /\ PipeIdle
    /\ MoreIdle
    /\ matches \in MatchChoices
    /\ \E ks \in [1..MaxOdd -> CliKeys] : \E vs \in [1..MaxOdd -> OddValues \cup {Text7}] :
          cli = [k \in CliKeys |->
                    IF \E i \in 1..MaxOdd : ks[i] = k
                    THEN vs[CHOOSE i \in 1..MaxOdd : ks[i] = k]
                    ELSE DefaultCli[k]]
    /\ written = NotRun

RunUpdateParquet ==
    /\ written = NotRun
    /\ written' = update_parquet(cli, matches)
    /\ UNCHANGED <<cli, matches, divVars, castVars, pipeVars, moreVars>>

NextRow == RunUpdateParquet

SpecRow == InitRow /\ [][NextRow]_vars

\* C7: the row update_parquet writes has exactly the schema's fields and is
\* null only where the schema says nullable; a sentinel supplied for or
\* derived into a non-nullable field makes the write fail.
C7_NullOnlyWhereNullable ==
    /\ written.status = "ok" =>
          /\ written.df.columns = FieldNames(SCHEMA)
          /\ DOMAIN written.df.rows[1] = Range(FieldNames(SCHEMA))
          /\ \A i \in NonNullable(SCHEMA) : written.df.rows[1][SCHEMA[i].name] # Null
    /\ (written # NotRun /\ \E i \in NonNullable(SCHEMA) : RawRow(cli)[SCHEMA[i].name] = NA)
          => written.status = "raise"

(***************************************************************************)
(* Spec: the pipeline with two invocations of the merge script running     *)
(* at once. SpecSeq: one writer of the store at a time.                    *)
(***************************************************************************)
Init ==
    /\ DivIdle
    /\ CastIdle
    /\ RowIdle
    /\ PipeIdle
    /\ MoreIdle

Step(p) ==
    /\ \/ \E b \in Batches : \E d \in Batches : \E o \in OutNames : Merge(p, b, d, o)
       \/ SaveMerged(p)
       \/ ReadDb(p)
       \/ WriteDb(p)
    /\ UNCHANGED <<divVars, castVars, rowVars, moreVars>>

Produce ==
    /\ \E b \in Batches : \E m \in Methods : \E t \in Timestamps : WriteTrial(b, m, t)
    /\ UNCHANGED <<divVars, castVars, rowVars, moreVars>>

Setup(serial) ==
    /\ SetupLoadFromSample(serial) \/ SetupLoadFromDb(serial)
    /\ UNCHANGED <<divVars, castVars, rowVars, moreVars>>

Next == (\E p \in Procs : Step(p)) \/ Produce \/ Setup(FALSE)

Spec == Init /\ [][Next]_vars

NextSeq == Step(1) \/ Produce \/ Setup(TRUE)

SpecSeq == Init /\ [][NextSeq]_vars

\* How many times row r occurs in q.
Count(r, q) == Cardinality({i \in 1..Len(q) : q[i] = r})

\* Every row of q occurs in w at least as often as in q.
ContainsRows(w, q) == \A r \in Range(q) : Count(r, w) >= Count(r, q)

\* Invocation p writes the store in this step.
Appends(p) == pc[p] = "read" /\ pc'[p] = "done"

\* C1: a run of the script as the only writer, on an existing store S and
\* a merged batch B, leaves a store of |S| + |B| rows that holds every row
\* of S and every row of B.
C1_AppendAddsBatch ==
    [][\A p \in Procs :
          (Appends(p) /\ store.exists) =>
              /\ merged[p] # <<>>
              /\ Len(store'.rows) = Len(store.rows) + Len(merged[p])
              /\ \A r \in Range(store.rows) \cup Range(merged[p]) :
                    Count(r, store'.rows) = Count(r, store.rows) + Count(r, merged[p])]_vars

\* A finished append of a batch onto a store that held another batch.
C1_Witness ==
    \E p \in Procs :
        /\ pc[p] = "done"
        /\ old[p].exists
        /\ old[p].rows # <<>>
        /\ store.rows = old[p].rows \o merged[p]
        /\ \E r \in Range(merged[p]) : r \notin Range(old[p].rows)

\* C2: when two invocations have both read the same old store and one has
\* written, the write of the other replaces the store by old store plus
\* its own batch: the rows the first writer added are gone, and the write
\* is taken without any check.
C2_LostUpdate ==
    [][\A p \in Procs : \A q \in Procs \ {p} :
          ( /\ Appends(p)
            /\ pc[q] = "done"
            /\ prev[q].valid
            /\ prev[q].before = old[p]
            /\ store = FileOf(prev[q].written) ) =>
              /\ store'.rows = old[p].rows \o merged[p]
              /\ \A r \in Range(merged[q]) :
                    Count(r, store'.rows) =
                        Count(r, store.rows) - Count(r, merged[q]) + Count(r, merged[p])]_vars

\* Both invocations read the same existing store, both wrote, and the store
\* holds the batch of the second writer and no row of the first writer's.
C2_Witness ==
    \E p \in Procs : \E q \in Procs \ {p} :
        /\ pc[p] = "done" /\ pc[q] = "done"
        /\ old[p].exists
        /\ old[q] = old[p]
        /\ store.rows = old[p].rows \o merged[p]
        /\ merged[q] # <<>>
        /\ \A r \in Range(merged[q]) : Count(r, store.rows) = 0

\* C3 as stated: the rows of the store are always in ascending Timestamp
\* order.
C3_StoreSorted == store.exists => IsSorted(store.rows)

\* C3 as the code has it: the batch is sorted, the old rows are written
\* back as they were with the batch after them, and the result is in
\* ascending order exactly when the old store was and no row of the batch
\* is older than the last stored row.
C3_AppendKeepsOrder ==
    [][\A p \in Procs :
          Appends(p) =>
              /\ IsSorted(merged[p])
              /\ old[p].exists =>
                    /\ store'.rows = old[p].rows \o merged[p]
                    /\ IsSorted(store'.rows) <=>
                          /\ IsSorted(old[p].rows)
                          /\ \/ old[p].rows = <<>>
                             \/ old[p].rows[Len(old[p].rows)].Timestamp
                                    <= merged[p][1].Timestamp]_vars

\* A sorted store, a batch with an older row appended to it, and the store
\* out of order.
C3_Witness ==
    \E p \in Procs :
        /\ pc[p] = "done"
        /\ old[p].exists
        /\ IsSorted(old[p].rows)
        /\ store.rows = old[p].rows \o merged[p]
        /\ ~IsSorted(store.rows)

\* C4 as stated: no step takes a stored row away.
C4_NeverLosesRows ==
    [][store.exists => (store'.exists /\ ContainsRows(store'.rows, store.rows))]_vars

\* C4 as the code has it: an append by the only writer keeps every stored
\* row, --load-from-db leaves the store file alone, --load-from-sample
\* replaces the store by the sample, and nothing else writes the store.
C4_OnlySampleLoadReplaces ==
    [][ /\ \A p \in Procs :
              (Appends(p) /\ store.exists) =>
                  (store'.exists /\ ContainsRows(store'.rows, store.rows))
        /\ (loads' = loads + 1 /\ lastLoad' = "sample") => store' = FileOf(Sample)
        /\ (loads' = loads + 1 /\ lastLoad' # "sample") => store' = store
        /\ (loads' = loads /\ \A p \in Procs : ~Appends(p)) => store' = store ]_vars

\* The store held a batch, and after --load-from-sample it holds the
\* sample and none of the rows of that batch.
C4_Witness ==
    /\ lastLoad = "sample"
    /\ store = FileOf(Sample)
    /\ \E p \in Procs :
          /\ prev[p].valid
          /\ prev[p].written # <<>>
          /\ \A r \in Range(prev[p].written) : Count(r, store.rows) = 0

\* C5: a second run with the same batch directory and output path, on the
\* same files and on the store the first run wrote, leaves every row of the
\* batch in the store twice more than before the first run.
C5_RerunDuplicates ==
    [][\A p \in Procs :
          ( /\ Appends(p)
            /\ prev[p].valid
            /\ prev[p].argv = argv[p]
            /\ prev[p].files = files[p]
            /\ old[p] = FileOf(prev[p].written) ) =>
              \A r \in Range(merged[p]) :
                  /\ Count(r, store'.rows)
                        = Count(r, prev[p].before.rows) + 2 * Count(r, merged[p])
                  /\ Count(r, store'.rows) >= 2]_vars

\* Two runs on the same batch of two trials, the second finished: the store
\* is what the first run wrote followed by the batch again.
C5_Witness ==
    \E p \in Procs :
        /\ pc[p] = "done"
        /\ runs = 2
        /\ prev[p].valid
        /\ prev[p].before.exists
        /\ Len(merged[p]) = 2
        /\ store.rows = prev[p].before.rows \o merged[p]
        /\ Len(store.rows) = 4
        /\ \A r \in Range(merged[p]) : Count(r, store.rows) >= 2

\* Every row a file of the pipeline can hold.
AllRows ==
    {Row(t, m, b) : t \in Timestamps, m \in Methods, b \in Batches} \cup Range(Sample)

RECURSIVE CountInFiles(_, _, _)
\* How many times row r occurs in the files `names` of directory b.
CountInFiles(r, b, names) ==
    IF names = {} THEN 0
    ELSE LET n == CHOOSE x \in names : TRUE
         IN  Count(r, ReadFile(b, n)) + CountInFiles(r, b, names \ {n})

\* Invocation p merges a non-empty set of files in this step.
Merges(p) == Stopped(p) /\ pc'[p] = "merged"

\* C11: whatever order the files are read in, the merged batch holds each
\* row exactly as often as the input files together do, and its rows are in
\* ascending Timestamp order.
C11_MergeCommutesSorted ==
    [][\A p \in Procs :
          Merges(p) =>
              /\ files'[p] # {}
              /\ IsSorted(merged'[p])
              /\ \A r \in AllRows :
                    Count(r, merged'[p]) = CountInFiles(r, argv'[p].batch_dir, files'[p])
              /\ Range(merged'[p]) \subseteq AllRows]_vars

\* A batch merged from two files of different Timestamp.
C11_Witness ==
    \E p \in Procs :
        /\ pc[p] = "merged"
        /\ Cardinality(files[p]) = 2
        /\ Len(merged[p]) = 2
        /\ merged[p][1].Timestamp < merged[p][2].Timestamp

\* Invocation p starts a run in this step.
Starts(p) == Stopped(p) /\ runs' = runs + 1 /\ pc'[p] \in {"merged", "exit0"}

\* The files of directory b that the glob matches, the one named o aside.
OtherInputs(b, o) == {n \in DirNames(b) : GlobMatches(n) /\ n # o}

\* C13: a run on a batch directory that holds no per-trial file other than
\* the output file ends with the message and status zero, and writes neither
\* the batch output nor the store; having ended, it does nothing more.
C13_EmptyExitsClean ==
    [][\A p \in Procs :
          /\ (Starts(p) /\ OtherInputs(argv'[p].batch_dir, argv'[p].output) = {}) =>
                /\ pc'[p] = "exit0"
                /\ outs' = outs
                /\ store' = store
                /\ trials' = trials
          /\ (pc[p] = "exit0" /\ ~Starts(p)) => pc'[p] = "exit0"]_vars

\* A run that ended with status zero on a directory whose only file is the
\* output file, which is still as it was written.
C13_Witness ==
    \E p \in Procs :
        /\ pc[p] = "exit0"
        /\ argv[p].out_dir = argv[p].batch_dir
        /\ GlobMatches(argv[p].output)
        /\ outs[argv[p].batch_dir][argv[p].output].exists
        /\ DirNames(argv[p].batch_dir) = {argv[p].output}
        /\ store = outs[argv[p].batch_dir][argv[p].output]

\* The per-trial files of directory b.
TrialsOf(b) == {n \in TrialNames : [batch |-> b, name |-> n] \in trials}

\* C18: the file named as the output is never among the files merged; so a
\* run on a directory that holds, besides its per-trial files, the merged
\* output under the designated name yields each per-trial row exactly once.
C18_OutputNotMerged ==
    [][\A p \in Procs :
          Starts(p) =>
              LET b == argv'[p].batch_dir
                  o == argv'[p].output
              IN  /\ o \notin files'[p]
                  /\ ( /\ pc'[p] = "merged"
                       /\ outs[b][o].exists
                       /\ DirNames(b) \ TrialsOf(b) = {o} ) =>
                        /\ Len(merged'[p]) = Cardinality(TrialsOf(b))
                        /\ \A n \in TrialsOf(b) :
                              Count(Row(n.timestamp, n.method, b), merged'[p]) = 1]_vars

\* The second run on a directory that holds two per-trial files and the
\* output of the first run, which the glob matches: two rows merged.
C18_Witness ==
    \E p \in Procs :
        /\ pc[p] = "merged"
        /\ prev[p].valid
        /\ prev[p].argv = argv[p]
        /\ argv[p].out_dir = argv[p].batch_dir
        /\ GlobMatches(argv[p].output)
        /\ outs[argv[p].batch_dir][argv[p].output].exists
        /\ Len(outs[argv[p].batch_dir][argv[p].output].rows) = 2
        /\ Cardinality(TrialsOf(argv[p].batch_dir)) = 2
        /\ Len(merged[p]) = 2

\* C17: a successful cast keeps the columns and their order and the rows
\* and their order; a column that is no schema field is unchanged, and each
\* value of a schema field is the cast of the value in the same row.
C17_CastKeepsFrame ==
    cast1.status = "ok" =>
        /\ cast1.df.columns = df.columns
        /\ DOMAIN cast1.df.dtypes = DOMAIN df.dtypes
        /\ Len(cast1.df.rows) = Len(df.rows)
        /\ \A c \in Range(df.columns) \ Range(FieldNames(schema)) :
              /\ cast1.df.dtypes[c] = df.dtypes[c]
              /\ \A i \in 1..Len(df.rows) : cast1.df.rows[i][c] = df.rows[i][c]
        /\ \A k \in 1..Len(schema) :
              /\ cast1.df.dtypes[schema[k].name] = schema[k].dtype
              /\ \A i \in 1..Len(df.rows) :
                    cast1.df.rows[i][schema[k].name]
                        = CastExpr(df.rows[i][schema[k].name], schema[k],
                                   df.dtypes[schema[k].name])

\* A successful cast of two different rows of a table whose first column
\* is no schema field, with a value changed by the cast.
C17_Witness ==
    /\ cast1.status = "ok"
    /\ Len(df.columns) = 2
    /\ df.columns[1] = "Extra"
    /\ Len(df.rows) = 2
    /\ df.rows[1] # df.rows[2]
    /\ cast1.df.rows[1] # df.rows[1]
    /\ cast1.df.rows[2] # df.rows[2]

(***************************************************************************)
(* combine_batch_parquets.py on tables with their columns. A per-trial     *)
(* file holds one row; its columns are fields of SCHEMA in SCHEMA's order. *)
(***************************************************************************)
ColumnOrder == <<"Timestamp", "Cycles", "L2 Loads">>

\* The dtype two dtypes are both coerced to (how="vertical_relaxed").
Supertype(a, b) ==
    IF a = b THEN a
    ELSE IF a = "Null" THEN b
    ELSE IF b = "Null" THEN a
    ELSE IF {a, b} = {"Int64", "Float64"} THEN "Float64"
    ELSE "Utf8"

RECURSIVE SupertypeOf(_, _)
\* The common dtype of column c of the tables.
SupertypeOf(c, tables) ==
    IF Len(tables) = 1 THEN tables[1].dtypes[c]
    ELSE Supertype(tables[1].dtypes[c], SupertypeOf(c, Tail(tables)))

RECURSIVE StackRows(_, _)
\* The rows of the tables one after the other, each value cast to the dtype
\* of its column in `dtypes`.
StackRows(tables, dtypes) ==
    IF tables = <<>> THEN <<>>
    ELSE LET t == tables[1]
         IN  [i \in 1..Len(t.rows) |->
                 [c \in DOMAIN dtypes |-> CastValue(t.rows[i][c], t.dtypes[c], dtypes[c])]]
                 \o StackRows(Tail(tables), dtypes)

ConcatFailed == [status |-> "raise", error |-> "ShapeError", df |-> NoFrame]

\* What how="diagonal_relaxed" would do: the union of the columns, null
\* where a table lacks a column.
ConcatDiagonal(tables) ==
    LET present(c) == SelectSeq(tables, LAMBDA t : c \in Range(t.columns))
        columns == SelectSeq(ColumnOrder, LAMBDA c : present(c) # <<>>)
        dtypes == [c \in Range(columns) |-> SupertypeOf(c, present(c))]
        filled(t) ==
            DataFrame(columns,
                      [c \in Range(columns) |->
                          IF c \in Range(t.columns) THEN t.dtypes[c] ELSE "Null"],
                      [i \in 1..Len(t.rows) |->
                          [c \in Range(columns) |->
                              IF c \in Range(t.columns) THEN t.rows[i][c] ELSE Null]])
    IN  [ status |-> "ok", error |-> "",
          df |-> DataFrame(columns, dtypes,
                           StackRows([k \in 1..Len(tables) |-> filled(tables[k])], dtypes)) ]

\* pl.concat(tables, how="vertical_relaxed") of one table or more: the
\* tables must have the same columns; each column gets the common dtype.
Concat(tables) ==
    LET first == tables[1]
        dtypes == [c \in Range(first.columns) |-> SupertypeOf(c, tables)]
    IN  IF \E k \in 1..Len(tables) : tables[k].columns # first.columns
        THEN ConcatFailed
        ELSE [ status |-> "ok", error |-> "",
               df |-> DataFrame(first.columns, dtypes, StackRows(tables, dtypes)) ]

RECURSIVE TableSorts(_)
\* .sort("Timestamp") on the rows of a table.
TableSorts(q) ==
    IF q = <<>> THEN {<<>>}
    ELSE LET firsts == {q[i] : i \in {j \in 1..Len(q) :
                           \A k \in 1..Len(q) : q[j]["Timestamp"].n <= q[k]["Timestamp"].n}}
         IN  UNION {{<<r>> \o rest : rest \in TableSorts(RemoveOne(q, r))} : r \in firsts}

TableFile(t) == [exists |-> TRUE, df |-> t]
NoTableFile == [exists |-> FALSE, df |-> NoFrame]
NotCombined == [status |-> "none", line |-> 0, out |-> NoTableFile, db |-> NoTableFile]

\* Lines 62-70 with the merged table m: the store file afterwards.
AppendTable(m, db) ==
    IF db.exists
    THEN LET c == Concat(<<db.df, m>>)
         IN  IF c.status = "raise"
             THEN [status |-> "raise", line |-> 64, out |-> TableFile(m), db |-> db]
             ELSE [status |-> "ok", line |-> 70, out |-> TableFile(m), db |-> TableFile(c.df)]
    ELSE [status |-> "ok", line |-> 70, out |-> TableFile(m), db |-> TableFile(m)]

\* The script from line 52 on: every way it can end on the tables fs of
\* the files and the store file db.
CombineTables(fs, db) ==
    IF fs = <<>>
    THEN {[status |-> "exit0", line |-> 54, out |-> NoTableFile, db |-> db]}
    ELSE LET c == Concat(fs)
         IN  IF c.status = "raise"
             THEN {[status |-> "raise", line |-> 56, out |-> NoTableFile, db |-> db]}
             ELSE {AppendTable(DataFrame(c.df.columns, c.df.dtypes, rows), db) :
                      rows \in TableSorts(c.df.rows)}

(***************************************************************************)
(* SpecConcat: the script on up to MaxFiles per-trial tables and a store.  *)
(***************************************************************************)
MaxFiles == 2

\* The column lists of a file: Timestamp, and any of the other columns.
ColumnLists ==
    {SelectSeq(ColumnOrder, LAMBDA c : c = "Timestamp" \/ c \in S) :
        S \in SUBSET {"Cycles", "L2 Loads"}}

ColumnDTypes(c) ==
    CASE c = "Timestamp" -> {"Datetime"}
      [] c = "Cycles" -> {"Int64", "Float64"}
      [] OTHER -> {"Int64", "Null"}

ValueOf(dtype, ts) ==
    CASE dtype = "Datetime" -> DtV(ts)
      [] dtype = "Int64" -> IntV(7)
      [] dtype = "Float64" -> FltV(25000)
      [] OTHER -> Null

\* The one-row tables.
OneRowTables ==
    UNION {
        {DataFrame(cols, dtypes, <<[c \in Range(cols) |-> ValueOf(dtypes[c], ts)]>>) :
            dtypes \in {d \in [Range(cols) -> DTypes] :
                           \A c \in Range(cols) : d[c] \in ColumnDTypes(c)},
            ts \in Timestamps}
        : cols \in ColumnLists}

InitConcat ==
    /\ DivIdle /\ CastIdle /\ RowIdle /\ PipeIdle
    /\ DtypeIdle /\ ExtractIdle /\ PathIdle /\ WaitIdle
    /\ \E n \in 0..MaxFiles : frames \in [1..n -> OneRowTables]
    /\ dbframe \in {NoTableFile} \cup {TableFile(t) : t \in OneRowTables}
    /\ combined = NotCombined

RunCombine ==
    /\ combined = NotCombined
    /\ combined' \in CombineTables(frames, dbframe)
    /\ UNCHANGED <<frames, dbframe, divVars, castVars, rowVars, pipeVars,
                   dtypeVars, extractVars, pathVars, waitVars>>

NextConcat == RunCombine

SpecConcat == InitConcat /\ [][NextConcat]_vars

\* The columns of some of the tables.
ColumnsOfAny(tables) == UNION {Range(tables[k].columns) : k \in 1..Len(tables)}

\* Row i of table t holds null in each column of `absent`.
NullIn(t, i, absent) == \A c \in absent : c \in DOMAIN t.rows[i] /\ t.rows[i][c] = Null

\* C12 as stated: whatever the column sets of the files and of the store,
\* the run succeeds, and the columns of the merged output and of the store
\* are the union of the columns of what was concatenated, null filled in.
C12_ConcatUnionsColumns ==
    (combined # NotCombined /\ frames # <<>>) =>
        /\ combined.status = "ok"
        /\ Range(combined.out.df.columns) = ColumnsOfAny(frames)
        /\ \A i \in 1..Len(frames) :
              \E k \in 1..Len(combined.out.df.rows) :
                  NullIn(combined.out.df, k, ColumnsOfAny(frames) \ Range(frames[i].columns))
        /\ dbframe.exists =>
              Range(combined.db.df.columns)
                  = ColumnsOfAny(frames) \cup Range(dbframe.df.columns)

\* The files have the same columns.
SameColumns(tables) == \A k \in 1..Len(tables) : tables[k].columns = tables[1].columns

\* C12 as the code has it: files of different columns make the concat of
\* line 56 raise, and nothing is written; a store whose columns are not the
\* batch's makes the concat of line 64 raise after the merged output was
\* written, and the store is left as it was; otherwise the run succeeds and
\* output and store have the columns of the files, and no row is filled in.
C12_ConcatNeedsSameColumns ==
    (combined # NotCombined /\ frames # <<>>) =>
        IF ~SameColumns(frames)
        THEN /\ combined.status = "raise" /\ combined.line = 56
             /\ ~combined.out.exists
             /\ combined.db = dbframe
        ELSE IF dbframe.exists /\ dbframe.df.columns # frames[1].columns
        THEN /\ combined.status = "raise" /\ combined.line = 64
             /\ combined.out.exists
             /\ combined.out.df.columns = frames[1].columns
             /\ combined.db = dbframe
        ELSE /\ combined.status = "ok"
             /\ combined.out.df.columns = frames[1].columns
             /\ combined.db.df.columns = frames[1].columns
             /\ Len(combined.out.df.rows) = Len(frames)
             /\ Len(combined.db.df.rows)
                   = Len(frames) + (IF dbframe.exists THEN Len(dbframe.df.rows) ELSE 0)
             /\ \A c \in Range(frames[1].columns) :
                   combined.db.df.dtypes[c]
                       = IF dbframe.exists
                         THEN SupertypeOf(c, <<dbframe.df>> \o frames)
                         ELSE SupertypeOf(c, frames)

\* Two files, one with the column L2 Loads and one without: the run failed
\* at the concat of the batch.
C12_Witness ==
    /\ combined.status = "raise"
    /\ combined.line = 56
    /\ Len(frames) = 2
    /\ "L2 Loads" \in Range(frames[1].columns)
    /\ "L2 Loads" \notin Range(frames[2].columns)
    /\ dbframe.exists

(***************************************************************************)
(* pipeline/schema_to_clickhouse.py : polars_to_clickhouse_dtype.          *)
(* A dtype argument is a string, a class or an instance; `init` says       *)
(* whether the class can be instantiated without arguments.                *)
(***************************************************************************)
PyStr(name) == [form |-> "str", name |-> name, init |-> ""]
PyClass(name, init) == [form |-> "class", name |-> name, init |-> init]
PyInstance(name) == [form |-> "instance", name |-> name, init |-> ""]

\* dtype_map
dtype_map ==
    [n \in {"String", "Utf8", "Int64", "Float64", "Datetime"} |->
        CASE n \in {"String", "Utf8"} -> "String"
          [] n = "Int64" -> "Int64"
          [] n = "Float64" -> "Float64"
          [] OTHER -> "DateTime64(3)"]

\* f"Nullable({ch_type})" if nullable else ch_type
Decorate(ch_type, nullable) ==
    IF nullable THEN <<"Nullable(", ch_type, ")">> ELSE <<ch_type>>

Returned(text) == [status |-> "ok", text |-> text, error |-> ""]
RaisedIn(cls, line) == [status |-> "raise", text |-> <<>>, error |-> cls, line |-> line]
NotMapped == [status |-> "none", text |-> <<>>, error |-> ""]

\* Lines 81-90: on an instance whose type is named dtype_name.
MatchTypeName(dtype_name, nullable) ==
    CASE dtype_name \in {"Utf8", "String"} -> Returned(Decorate("String", nullable))
      [] dtype_name = "Int64" -> Returned(Decorate("Int64", nullable))
      [] dtype_name = "Float64" -> Returned(Decorate("Float64", nullable))
      [] dtype_name = "Datetime" -> Returned(Decorate("DateTime64(3)", nullable))
      [] OTHER -> RaisedIn("ValueError", 88)

polars_to_clickhouse_dtype(dtype, nullable) ==
    IF dtype.form = "str"
    THEN IF dtype.name \notin DOMAIN dtype_map
         THEN RaisedIn("ValueError", 75)
         ELSE Returned(Decorate(dtype_map[dtype.name], nullable))
    ELSE IF dtype.form = "class"
    THEN IF dtype.init = "requires arguments"
         THEN RaisedIn("TypeError", 79)
         ELSE MatchTypeName(dtype.name, nullable)
    ELSE MatchTypeName(dtype.name, nullable)

(***************************************************************************)
(* SpecDtype: polars_to_clickhouse_dtype on one dtype and flag.            *)
(***************************************************************************)
DtypeStrings ==
    {"String", "Utf8", "Int64", "Float64", "Datetime", "Boolean", "Int32", "Date",
     "int64", "utf8", "", "Nullable(Int64)"}

\* Polars dtype classes, and the Python classes int and str.
DtypeClasses ==
    {PyClass(n, "default") :
        n \in {"Utf8", "String", "Int64", "Float64", "Datetime", "Boolean", "Int32",
               "Date", "int", "str"}}
        \cup {PyClass(n, "requires arguments") : n \in {"List", "Struct", "Array"}}

DtypeInstances ==
    {PyInstance(n) :
        n \in {"Utf8", "String", "Int64", "Float64", "Datetime", "Boolean", "Int32",
               "List", "NoneType", "int", "float"}}

DtypeArgs == {PyStr(n) : n \in DtypeStrings} \cup DtypeClasses \cup DtypeInstances

InitDtype ==
    /\ DivIdle /\ CastIdle /\ RowIdle /\ PipeIdle
    /\ ConcatIdle /\ ExtractIdle /\ PathIdle /\ WaitIdle
    /\ dtypeArg \in DtypeArgs
    /\ nullableArg \in BOOLEAN
    /\ chType = NotMapped

CallDtype ==
    /\ chType = NotMapped
    /\ chType' = polars_to_clickhouse_dtype(dtypeArg, nullableArg)
    /\ UNCHANGED <<dtypeArg, nullableArg, divVars, castVars, rowVars, pipeVars,
                   concatVars, extractVars, pathVars, waitVars>>

NextDtype == CallDtype

SpecDtype == InitDtype /\ [][NextDtype]_vars

\* The column type of each recognized semantic type.
ColumnTypeOf(name) ==
    CASE name = "Int64" -> "Int64"
      [] name = "Float64" -> "Float64"
      [] name = "Datetime" -> "DateTime64(3)"
      [] OTHER -> "String"

\* C14: a recognized type gives its column type, inside Nullable(...)
\* exactly when the flag is set; any other type, given as string, class or
\* instance, raises ValueError.
C14_DtypeMapping ==
    chType # NotMapped =>
        IF dtypeArg.name \in {"Int64", "Float64", "Utf8", "String", "Datetime"}
        THEN /\ chType.status = "ok"
             /\ chType.text = IF nullableArg
                              THEN <<"Nullable(", ColumnTypeOf(dtypeArg.name), ")">>
                              ELSE <<ColumnTypeOf(dtypeArg.name)>>
        ELSE /\ chType.status = "raise"
             /\ chType.error = "ValueError"

(***************************************************************************)
(* pipeline/parse_perf_metrics.py. A row of the dump: its event name and   *)
(* the text of its value field.                                            *)
(***************************************************************************)
FieldMapPairs ==
    << <<"cycles", "cycles:u">>, <<"instr", "instructions:u">>,
       <<"cache_loads", "cache-references:u">>, <<"cache_miss", "cache-misses:u">>,
       <<"l1_loads", "L1-dcache-loads:u">>, <<"l1_misses", "L1-dcache-load-misses:u">>,
       <<"l2_loads", "NA">>, <<"l2_misses", "NA">>,
       <<"l3_loads", "NA">>, <<"l3_misses", "NA">>,
       <<"tlb_loads", "dTLB-loads:u">>, <<"tlb_misses", "dTLB-load-misses:u">>,
       <<"branch_instr", "branch-instructions:u">>,
       <<"branch_misses", "branch-misses:u">> >>

field_map ==
    [k \in {FieldMapPairs[i][1] : i \in 1..Len(FieldMapPairs)} |->
        FieldMapPairs[CHOOSE i \in 1..Len(FieldMapPairs) : FieldMapPairs[i][1] = k][2]]

\* event_to_key = {v: k for k, v in field_map.items() if v != "NA"}
event_to_key ==
    [e \in {field_map[k] : k \in DOMAIN field_map} \ {"NA"} |->
        CHOOSE k \in DOMAIN field_map : field_map[k] = e]

DumpRow(event, value) == [event |-> event, value |-> value]

\* pl.read_csv: the dtype inferred for the column "value" from all its rows.
InferredValueDType(rows) ==
    IF \A i \in 1..Len(rows) : IsIntText(rows[i].value) THEN "Int64"
    ELSE IF \A i \in 1..Len(rows) : IsDecimalText(rows[i].value) THEN "Float64"
    ELSE "Utf8"

\* pl.read_csv: the value of a field of a column of that dtype.
ParsedValue(cs, dtype) ==
    CASE dtype = "Int64" -> IntV(IntTextValue(cs))
      [] dtype = "Float64" -> FltV(DecimalTextValue(cs))
      [] OTHER -> StrV(cs)

\* Expr.cast(dtype, strict=False): null where the strict cast fails.
CastLenient(v, from, to) ==
    IF CastValue(v, from, to).k = "raise" THEN Null ELSE CastValue(v, from, to)

\* to_clean: "NA" where the value is no float, else the value as a string.
CleanValue(v, dtype) ==
    IF CastLenient(v, dtype, "Float64") = Null THEN NA ELSE CastValue(v, dtype, "Utf8")

RECURSIVE AssignRows(_, _, _)
\* Lines 85-87: the loop over the filtered rows, in their order.
AssignRows(rows, dtype, vals) ==
    IF rows = <<>> THEN vals
    ELSE AssignRows(
            Tail(rows), dtype,
            [vals EXCEPT ![event_to_key[Head(rows).event]] =
                CleanValue(ParsedValue(Head(rows).value, dtype), dtype)])

DerivedKeys == {"ipc", "miss_per_trial", "cycles_per_trial"}

NotExtracted == [status |-> "none", error |-> "", out |-> <<>>]

\* The whole script on the rows of the dump and int(sys.argv[2]).
parse_perf_metrics(rows, n) ==
    IF rows = <<>>
    THEN [status |-> "raise", error |-> "NoDataError", out |-> <<>>]
    ELSE LET dtype == InferredValueDType(rows)
             filtered == SelectSeq(rows, LAMBDA r : r.event \in DOMAIN event_to_key)
             vals == AssignRows(filtered, dtype, [k \in DOMAIN field_map |-> NA])
         IN  [ status |-> "ok", error |-> "",
               out |-> [k \in DOMAIN field_map \cup DerivedKeys |->
                          CASE k = "ipc" -> safe_div(vals["instr"], vals["cycles"])
                            [] k = "miss_per_trial" -> safe_div(vals["cache_miss"], IntV(n))
                            [] k = "cycles_per_trial" -> safe_div(vals["cycles"], IntV(n))
                            [] OTHER -> vals[k]] ]

(***************************************************************************)
(* SpecExtract: the extractor on dumps of up to MaxDump rows.              *)
(***************************************************************************)
MaxDump == 2

DumpEvents == {"cycles:u", "instructions:u", "cache-misses:u", "NA", "task-clock:u"}

DumpTexts == {<<"7">>, <<"2", ".", "5">>, <<"<", "n", "o", "t", " ", "c", "o", "u", "n", "t", "e", "d", ">">>}

DumpRows == {DumpRow(e, t) : e \in DumpEvents, t \in DumpTexts}

InitExtract ==
    /\ DivIdle /\ CastIdle /\ RowIdle /\ PipeIdle
    /\ ConcatIdle /\ DtypeIdle /\ PathIdle /\ WaitIdle
    /\ \E n \in 0..MaxDump : dump \in [1..n -> DumpRows]
    /\ ntrials \in {0, 2}
    /\ values = NotExtracted

RunExtractor ==
    /\ values = NotExtracted
    /\ values' = parse_perf_metrics(dump, ntrials)
    /\ UNCHANGED <<dump, ntrials, divVars, castVars, rowVars, pipeVars,
                   concatVars, dtypeVars, pathVars, waitVars>>

NextExtract == RunExtractor

SpecExtract == InitExtract /\ [][NextExtract]_vars

\* The rows of the dump for the event of tracked field k.
RowsFor(k) == {i \in 1..Len(dump) : field_map[k] # "NA" /\ dump[i].event = field_map[k]}

\* The text of the value of the last row of the dump for field k.
LastValue(k) == dump[CHOOSE i \in RowsFor(k) : \A j \in RowsFor(k) : j <= i].value

\* The dump without the rows of events that are not tracked.
TrackedRows == SelectSeq(dump, LAMBDA r : r.event \in DOMAIN event_to_key)

\* C15: the output gives each tracked field one value: "NA" when the dump
\* has no row for its event or the value of the row is no float, else the
\* text of that value; and the rows of other events change nothing.
C15_ExtractorCovers ==
    values.status = "ok" =>
        /\ DOMAIN field_map \subseteq DOMAIN values.out
        /\ \A k \in DOMAIN field_map :
              IF RowsFor(k) = {} THEN values.out[k] = NA
              ELSE IF ~IsDecimalText(LastValue(k)) THEN values.out[k] = NA
              ELSE values.out[k] = StrV(LastValue(k))
        /\ TrackedRows # <<>> =>
              \A k \in DOMAIN field_map :
                  values.out[k] = parse_perf_metrics(TrackedRows, ntrials).out[k]

(***************************************************************************)
(* SpecPath: two trial writers of one batch run update_parquet, each on    *)
(* its own method and timestamp.                                           *)
(***************************************************************************)
Writers == {1, 2}

WriterMethods == {StrV(<<"A">>), StrV(<<"A", "_", "1">>), StrV(<<"B">>)}

WriterTimestamps ==
    { StrV(DayText \o <<"1", "7", ":", "0", "0", ":", "2", "0">>),
      StrV(DayText \o <<"1", "7", ":", "0", "0", ":", "2", "1">>),
      NA, StrV(<<"2">>), StrV(<<"1", "_", "2">>) }

CliOf(method, timestamp) ==
    [DefaultCli EXCEPT !["method"] = method, !["timestamp"] = timestamp]

InitPath ==
    /\ DivIdle /\ CastIdle /\ RowIdle /\ PipeIdle
    /\ ConcatIdle /\ DtypeIdle /\ ExtractIdle /\ WaitIdle
    /\ clis \in [Writers -> {CliOf(m, t) : m \in WriterMethods, t \in WriterTimestamps}]
    /\ fsys = {}
    /\ wrote = [w \in Writers |-> NotRun]

\* df.write_parquet(parquet_path): the file at the path is replaced.
WriteParquet(files_, path, w, table) ==
    {f \in files_ : f.path # path} \cup {[path |-> path, by |-> w, df |-> table]}

\* Writer w runs update_parquet; the batch directory exists.
WriterRuns(w) ==
    /\ wrote[w] = NotRun
    /\ LET res == update_parquet(clis[w], <<1>>)
       IN  /\ wrote' = [wrote EXCEPT ![w] = res]
           /\ fsys' = IF res.status = "ok"
                      THEN WriteParquet(fsys, res.path, w, res.df)
                      ELSE fsys
    /\ UNCHANGED <<clis, divVars, castVars, rowVars, pipeVars,
                   concatVars, dtypeVars, extractVars, waitVars>>

NextPath == \E w \in Writers : WriterRuns(w)

SpecPath == InitPath /\ [][NextPath]_vars

\* Writers v and w were given different (method, timestamp, batch id).
DifferentTrials(v, w) ==
    \/ clis[v]["method"] # clis[w]["method"]
    \/ clis[v]["timestamp"] # clis[w]["timestamp"]
    \/ clis[v]["batchid"] # clis[w]["batchid"]

\* C16 as stated: two writers of one batch that were given different
\* (method, timestamp, batch id) compute different paths.
C16_PathsDisjoint ==
    \A v \in Writers : \A w \in Writers \ {v} :
        (wrote[v] # NotRun /\ wrote[w] # NotRun /\ DifferentTrials(v, w)) =>
            wrote[v].path # wrote[w].path

\* C16 as the code has it: the paths of two writers of one batch are equal
\* exactly when method, "_" and timestamp give the same text, which
\* different values can do; with timestamps of equal length different
\* values give different paths, and each writer that wrote has its file.
C16_PathsDisjointFixedFormat ==
    \A v \in Writers : \A w \in Writers \ {v} :
        (wrote[v] # NotRun /\ wrote[w] # NotRun) =>
            /\ wrote[v].path = wrote[w].path <=>
                  clis[v]["method"].s \o <<"_">> \o clis[v]["timestamp"].s
                      = clis[w]["method"].s \o <<"_">> \o clis[w]["timestamp"].s
            /\ ( /\ DifferentTrials(v, w)
                 /\ Len(clis[v]["timestamp"].s) = Len(clis[w]["timestamp"].s) ) =>
                    /\ wrote[v].path # wrote[w].path
                    /\ wrote[v].status = "ok" =>
                          [path |-> wrote[v].path, by |-> v, df |-> wrote[v].df] \in fsys

\* Both writers wrote, with the same timestamp and different methods, and
\* both files are there.
C16_Witness ==
    /\ wrote[1].status = "ok"
    /\ wrote[2].status = "ok"
    /\ clis[1]["timestamp"] = clis[2]["timestamp"]
    /\ clis[1]["method"] # clis[2]["method"]
    /\ Cardinality(fsys) = 2

(***************************************************************************)
(* SpecWait: wait_for_clickhouse polls the server, one action per          *)
(* iteration of its loop.                                                  *)
(***************************************************************************)
\* for attempt in range(30)
MaxAttempts == 30

PyRangeInclusive(n) == 0 .. n

\* range(n)
PyRange(n) == 0 .. (n - 1)

\* What one iteration's try block can do: Client(...) and SELECT 1 both
\* succeed, or one of them raises an Exception.
FailureKinds == {"connect", "select"}

Outcomes == {"ready"} \cup FailureKinds

NoFailures == [k \in FailureKinds |-> 0]

Failed == failures["connect"] + failures["select"]

InitWait ==
    /\ DivIdle /\ CastIdle /\ RowIdle /\ PipeIdle
    /\ ConcatIdle /\ DtypeIdle /\ ExtractIdle /\ PathIdle
    /\ attempt = 0
    /\ attempts = 0
    /\ failures = NoFailures
    /\ waited = "waiting"

\* One iteration: the try block, and on an Exception the log, the sleep and
\* the step to the next value of the range or, past its end, the raise.
Attempt ==
    /\ waited = "waiting"
    /\ attempt \in PyRange(MaxAttempts)
    /\ attempts' = attempts + 1
    /\ \E outcome \in Outcomes :
          IF outcome = "ready"
          THEN /\ waited' = "returned"
               /\ UNCHANGED <<attempt, failures>>
          ELSE /\ failures' = [failures EXCEPT ![outcome] = @ + 1]
               /\ IF attempt + 1 \in PyRange(MaxAttempts)
                  THEN attempt' = attempt + 1 /\ waited' = "waiting"
                  ELSE attempt' = attempt /\ waited' = "raised"
    /\ UNCHANGED <<divVars, castVars, rowVars, pipeVars,
                   concatVars, dtypeVars, extractVars, pathVars>>

NextWait == Attempt

SpecWait == InitWait /\ [][NextWait]_vars

\* Every try block ends (the driver's connect and receive time out) and
\* every sleep returns, so an iteration that can run does run.
SpecWaitFair == SpecWait /\ WF_vars(Attempt)

WaitOver == waited \in {"returned", "raised"}

\* C19: wait_for_clickhouse terminates; it returns at the first attempt that
\* succeeds, all earlier ones having failed, and attempts nothing after it;
\* it raises RuntimeError after exactly 30 failed attempts; it never makes
\* a 31st attempt.
C19_WaitTerminates ==
    /\ [](/\ attempts <= MaxAttempts
          /\ waited = "waiting" => (attempts = attempt /\ Failed = attempts)
          /\ waited = "returned" => (attempts = attempt + 1 /\ Failed = attempt)
          /\ waited = "raised" => (attempts = MaxAttempts /\ Failed = MaxAttempts))
    /\ [][WaitOver => UNCHANGED waitVars]_vars
    /\ <>WaitOver

\* The server came up just in time: 29 attempts failed, the 30th returned.
C19_Witness ==
    /\ waited = "returned"
    /\ attempts = MaxAttempts
    /\ Failed = MaxAttempts - 1

====
